---------------------------- MODULE Spec2Model ----------------------------
(***************************************************************************)
(* Feedback collection platform: the response routes (routes/responses.js) *)
(* and the form routes (routes/forms.js) over the Form and Response        *)
(* collections.                                                            *)
(*                                                                         *)
(* POST /api/responses is an async handler with three storage round trips  *)
(* (Form.findById, Response.findOne, response.save); every round trip is   *)
(* one atomic step of the model and the synchronous code between two       *)
(* awaits belongs to the step that precedes it.  The summary handler has   *)
(* three round trips too (Form.findOne, Response.countDocuments,           *)
(* Response.find) and is modelled the same way; the other admin handlers   *)
(* are one step each.                                                      *)
(***************************************************************************)
EXTENDS Integers, Sequences, FiniteSets, TLC

VARIABLES
    forms,      \* Form collection: form id -> document
    responses,  \* Response collection, in insertion order
    hist,       \* history: for responses[i], what its duplicate lookup read
    req,        \* submissions in flight: connection -> handler locals
    res,        \* last HTTP reply sent on each connection
    input,      \* the request under study (<<>> when requests are free)
    adm,        \* the summary request in flight (<<>> when there is none)
    view,       \* the reply to a form or admin request sent by the last step
    made        \* number of Form documents created so far (ids are never reused)

vars == <<forms, responses, hist, req, res, input, adm, view, made>>

---------------------------------------------------------------------------
(* Bounds *)

\* longest answers array of a drawn request
MaxAnswers == 2
\* most documents the Response collection holds, counting those in flight
MaxResponses == 2
\* most Form documents ever created
MaxForms == 2

---------------------------------------------------------------------------
(* Values *)

Reqs == {"r1", "r2"}
Users == {"u1", "u2"}
FormIds == {"f1", "f2"}
Qids == {"q1", "q2", "q3"}
\* answer values: two options, a non-option, the empty string, one blank
Vals == {"A", "B", "C", "", " "}
IPs == {"10.0.0.1", "10.0.0.2"}
NoEmail == "<undefined>"
Emails == {"a@x.com", "A@x.com", "b@x.com", "nobody"}

Titles == {"T1", "T2"}
\* values the pre-save hook can generate for publicUrl
Urls == {"form-1", "form-2"}
NoUrl == "<undefined>"

Q1 == [id |-> "q1", text |-> "Name", type |-> "text",
       options |-> <<>>, required |-> TRUE, order |-> 1]
Q2 == [id |-> "q2", text |-> "Rating", type |-> "multiple-choice",
       options |-> <<"A", "B">>, required |-> FALSE, order |-> 2]
Q3 == [id |-> "q3", text |-> "Choice", type |-> "multiple-choice",
       options |-> <<"A", "B">>, required |-> TRUE, order |-> 1]
\* Q1 as an edit that keeps its _id rewords it
Q1b == [Q1 EXCEPT !.text = "Full name"]

Settings(multi, email) ==
    [allowMultipleResponses |-> multi, requireEmail |-> email]

\* a Form document as new Form({...}) builds it: isActive defaults to true,
\* publicUrl is not set yet
NewForm(title, creator, questions, settings) ==
    [title |-> title, creator |-> creator, questions |-> questions,
     isActive |-> TRUE, publicUrl |-> NoUrl, settings |-> settings]

\* a regeneration of publicUrl at every save
PreSaveAlways(doc, url) == [doc EXCEPT !.publicUrl = url]

\* formSchema.pre('save'): a document without publicUrl gets the generated one
PreSave(doc, url) ==
    IF doc.publicUrl = NoUrl THEN [doc EXCEPT !.publicUrl = url] ELSE doc

Ans(q, v) == [questionId |-> q, answer |-> v]

RECURSIVE SeqsUpTo(_, _)
SeqsUpTo(S, n) ==
    IF n = 0 THEN {<<>>}
    ELSE LET shorter == SeqsUpTo(S, n - 1)
         IN  shorter \cup {Append(s, x) : s \in {t \in shorter : Len(t) = n - 1}, x \in S}

AnswerLists == SeqsUpTo([questionId : Qids, answer : Vals], MaxAnswers)

\* request bodies of POST /api/responses, with the requester's address
Requests ==
    [formId : FormIds, answers : AnswerLists,
     submitterEmail : Emails \cup {NoEmail}, ip : IPs]

---------------------------------------------------------------------------
(* express-validator chain of POST /api/responses *)

\* notEmpty(): the value is a string of length 1 or more (blanks count)
NotEmpty(v) == v # ""

\* isEmail()
IsEmail(e) == e \in {"a@x.com", "A@x.com", "b@x.com"}

\* normalizeEmail(): lower-cases the address
NormalizeEmail(e) == IF e = "A@x.com" THEN "a@x.com" ELSE e

ValidationErrors(b) ==
    (IF Len(b.answers) < 1 THEN {"answers"} ELSE {})
    \cup (IF \E i \in 1..Len(b.answers) : ~NotEmpty(b.answers[i].answer)
          THEN {"answers.*.answer"} ELSE {})
    \cup (IF b.submitterEmail # NoEmail /\ ~IsEmail(b.submitterEmail)
          THEN {"submitterEmail"} ELSE {})

\* req.body after the sanitizers of the chain have run
Sanitize(b) ==
    [b EXCEPT !.submitterEmail =
        IF @ # NoEmail /\ IsEmail(@) THEN NormalizeEmail(@) ELSE @]

---------------------------------------------------------------------------
(* Replies *)

NoRes == [status |-> 0, kind |-> "none", detail |-> ""]
Reply(status, kind, detail) ==
    [status |-> status, kind |-> kind, detail |-> detail]

Rejections ==
    {"FormUnavailable", "AnswerCountMismatch", "RequiredQuestionUnanswered",
     "InvalidOption", "DuplicateSubmission"}

\* the reply to an admin request: the Form documents, the Response documents
\* and the summary its body carries
NoView ==
    [status |-> 0, kind |-> "none", forms |-> <<>>, responses |-> <<>>,
     summary |-> <<>>]
AdminReply(status, kind) ==
    [status |-> status, kind |-> kind, forms |-> <<>>, responses |-> <<>>,
     summary |-> <<>>]

---------------------------------------------------------------------------
(* Checks of POST /api/responses between Form.findById and Response.findOne *)

\* Array.prototype.find over the answers: index of the first match, 0 if none
FindAnswer(answers, qid) ==
    LET hits == {i \in 1..Len(answers) : answers[i].questionId = qid}
    IN  IF hits = {} THEN 0 ELSE CHOOSE i \in hits : \A j \in hits : i <= j

\* Array.prototype.find over the questions: index of the first match, 0 if none
FindQuestion(questions, qid) ==
    LET hits == {i \in 1..Len(questions) : questions[i].id = qid}
    IN  IF hits = {} THEN 0 ELSE CHOOSE i \in hits : \A j \in hits : i <= j

\* a membership test that compares with the first option only
IncludesFirstOnly(options, v) == Len(options) > 0 /\ options[1] = v

\* options.includes(value)
Includes(options, v) == \E i \in 1..Len(options) : options[i] = v

\* first question of the loop at which the required check returns, 0 if none
FirstUnanswered(form, answers) ==
    LET bad == {i \in 1..Len(form.questions) :
                   /\ FindAnswer(answers, form.questions[i].id) = 0
                   /\ form.questions[i].required}
    IN  IF bad = {} THEN 0 ELSE CHOOSE i \in bad : \A j \in bad : i <= j

\* first answer of the loop at which the option check returns, 0 if none
FirstInvalidOption(form, answers) ==
    LET bad == {i \in 1..Len(answers) :
                   LET k == FindQuestion(form.questions, answers[i].questionId)
                   IN  /\ k # 0
                       /\ form.questions[k].type = "multiple-choice"
                       /\ ~Includes(form.questions[k].options, answers[i].answer)}
    IN  IF bad = {} THEN 0 ELSE CHOOSE i \in bad : \A j \in bad : i <= j

\* a form test that forgets the activation flag
FormMissingOnly(b, store) == b.formId \notin DOMAIN store

\* !form || !form.isActive, form being the result of Form.findById(formId)
FormMissingOrInactive(b, store) ==
    b.formId \notin DOMAIN store \/ ~store[b.formId].isActive

\* a count test that only rejects too few answers
TooFewAnswers(form, answers) == Len(answers) < Len(form.questions)

\* answers.length !== form.questions.length
CountDiffers(form, answers) == Len(answers) # Len(form.questions)

\* the handler with the option check moved before the required check
ValidateOptionsFirst(b, store) ==
    IF ValidationErrors(b) # {}
    THEN Reply(400, "ValidationError", "")
    ELSE IF FormMissingOrInactive(b, store)
    THEN Reply(404, "FormUnavailable", "")
    ELSE LET form == store[b.formId] IN
         IF CountDiffers(form, b.answers)
         THEN Reply(400, "AnswerCountMismatch", "")
         ELSE IF FirstInvalidOption(form, b.answers) # 0
         THEN Reply(400, "InvalidOption",
                    form.questions[FindQuestion(form.questions,
                        b.answers[FirstInvalidOption(form, b.answers)].questionId)].text)
         ELSE IF FirstUnanswered(form, b.answers) # 0
         THEN Reply(400, "RequiredQuestionUnanswered",
                    form.questions[FirstUnanswered(form, b.answers)].text)
         ELSE NoRes

\* the reply of the handler up to the duplicate check, or NoRes to go on
Validate(b, store) ==
    IF ValidationErrors(b) # {}
    THEN Reply(400, "ValidationError", "")
    ELSE IF FormMissingOrInactive(b, store)
    THEN Reply(404, "FormUnavailable", "")
    ELSE LET form == store[b.formId] IN
         IF CountDiffers(form, b.answers)
         THEN Reply(400, "AnswerCountMismatch", "")
         ELSE IF FirstUnanswered(form, b.answers) # 0
         THEN Reply(400, "RequiredQuestionUnanswered",
                    form.questions[FirstUnanswered(form, b.answers)].text)
         ELSE IF FirstInvalidOption(form, b.answers) # 0
         THEN Reply(400, "InvalidOption",
                    form.questions[FindQuestion(form.questions,
                        b.answers[FirstInvalidOption(form, b.answers)].questionId)].text)
         ELSE NoRes


---------------------------------------------------------------------------
(* POST /api/responses *)

\* the handler from the validator chain to the call of Response.findOne:
\* reads the form once and replies, or leaves the request in flight
Handle(r, raw) ==
    /\ r \notin DOMAIN req
    /\ LET b == Sanitize(raw)
           reply == Validate(b, forms)
       IN  IF reply # NoRes
           THEN /\ res' = [res EXCEPT ![r] = reply]
                /\ UNCHANGED req
           ELSE /\ res' = [res EXCEPT ![r] = NoRes]
                /\ req' = (r :> [pc |-> IF forms[b.formId].settings.allowMultipleResponses
                                        THEN "save" ELSE "findOne",
                                 formId |-> b.formId,
                                 answers |-> b.answers,
                                 submitterEmail |-> b.submitterEmail,
                                 ip |-> b.ip,
                                 form |-> forms[b.formId],
                                 seen |-> 0]) @@ req
    /\ view' = NoView
    /\ UNCHANGED <<forms, responses, hist, adm, made>>

\* a lookup that forgets the e-mail address and always uses the address of origin
DuplicateKeyOriginOnly(c) == c.ip

\* the filter of Response.findOne: { form, submitterEmail: submitterEmail || req.ip }
DuplicateKey(c) == IF c.submitterEmail # NoEmail THEN c.submitterEmail ELSE c.ip

\* a filter that leaves out the form
MatchesFilterAnyForm(doc, c) == doc.submitterEmail = DuplicateKey(c)

MatchesFilter(doc, c) ==
    /\ doc.form = c.formId
    /\ doc.submitterEmail = DuplicateKey(c)

Without(f, x) == [y \in DOMAIN f \ {x} |-> f[y]]

\* a handler that saves the response before it looks for a duplicate
FindOneAfterSave(r) ==
    /\ r \in DOMAIN req
    /\ req[r].pc = "findOne"
    /\ IF \E i \in 1..Len(responses) : MatchesFilter(responses[i], req[r])
       THEN /\ res' = [res EXCEPT ![r] = Reply(400, "DuplicateSubmission", "")]
            /\ req' = [y \in DOMAIN req \ {r} |-> req[y]]
            /\ Len(responses) < MaxResponses
            /\ responses' = Append(responses,
                  [form |-> req[r].formId, answers |-> <<>>,
                   submitterEmail |-> req[r].submitterEmail, ipAddress |-> req[r].ip])
            /\ hist' = Append(hist, [checked |-> TRUE, seen |-> Len(responses),
                                     form |-> req[r].form])
       ELSE /\ req' = [req EXCEPT ![r].pc = "save", ![r].seen = Len(responses)]
            /\ UNCHANGED <<res, responses, hist>>
    /\ view' = NoView
    /\ UNCHANGED <<forms, input, adm, made>>

\* Response.findOne and the reply or continuation that follows it
FindOne(r) ==
    /\ r \in DOMAIN req
    /\ req[r].pc = "findOne"
    /\ IF \E i \in 1..Len(responses) : MatchesFilter(responses[i], req[r])
       THEN /\ res' = [res EXCEPT ![r] = Reply(400, "DuplicateSubmission", "")]
            /\ req' = Without(req, r)
       ELSE /\ req' = [req EXCEPT ![r].pc = "save", ![r].seen = Len(responses)]
            /\ UNCHANGED res
    /\ view' = NoView
    /\ UNCHANGED <<forms, responses, hist, input, adm, made>>

\* a response whose snapshots are all taken from the first question
NewResponseFirstQuestion(c) ==
    [form |-> c.formId,
     answers |-> [i \in 1..Len(c.answers) |->
        [questionId |-> c.answers[i].questionId,
         questionText |-> c.form.questions[1].text,
         questionType |-> c.form.questions[1].type,
         answer |-> c.answers[i].answer]],
     submitterEmail |-> c.submitterEmail,
     ipAddress |-> c.ip]

\* the document new Response({...}) builds from the handler's locals
NewResponse(c) ==
    [form |-> c.formId,
     answers |-> [i \in 1..Len(c.answers) |->
        LET q == c.form.questions[FindQuestion(c.form.questions, c.answers[i].questionId)]
        IN  [questionId |-> c.answers[i].questionId,
             questionText |-> q.text,
             questionType |-> q.type,
             answer |-> c.answers[i].answer]],
     submitterEmail |-> c.submitterEmail,
     ipAddress |-> c.ip]

\* answers.map throws a TypeError on question.text when find gives undefined
MapThrows(c) ==
    \E i \in 1..Len(c.answers) :
        FindQuestion(c.form.questions, c.answers[i].questionId) = 0

\* a save that stores an answer to an unknown question without text and type
SaveLoose(r) ==
    /\ r \in DOMAIN req
    /\ req[r].pc = "save"
    /\ Len(responses) < MaxResponses
    /\ responses' = Append(responses,
          [form |-> req[r].formId,
           answers |-> [i \in 1..Len(req[r].answers) |->
              [questionId |-> req[r].answers[i].questionId,
               questionText |-> "", questionType |-> "",
               answer |-> req[r].answers[i].answer]],
           submitterEmail |-> req[r].submitterEmail,
           ipAddress |-> req[r].ip])
    /\ hist' = Append(hist,
          [checked |-> ~req[r].form.settings.allowMultipleResponses,
           seen |-> req[r].seen,
           form |-> req[r].form])
    /\ res' = [res EXCEPT ![r] = Reply(201, "Accepted", "")]
    /\ req' = Without(req, r)
    /\ view' = NoView
    /\ UNCHANGED <<forms, input, adm, made>>

\* new Response, response.save and the 201 reply, or the catch block
Save(r) ==
    /\ r \in DOMAIN req
    /\ req[r].pc = "save"
    /\ IF MapThrows(req[r])
       THEN /\ res' = [res EXCEPT ![r] = Reply(500, "ServerError", "")]
            /\ UNCHANGED <<responses, hist>>
       ELSE /\ Len(responses) < MaxResponses
            /\ responses' = Append(responses, NewResponse(req[r]))
            /\ hist' = Append(hist,
                  [checked |-> ~req[r].form.settings.allowMultipleResponses,
                   seen |-> req[r].seen,
                   form |-> req[r].form])
            /\ res' = [res EXCEPT ![r] = Reply(201, "Accepted", "")]
    /\ req' = Without(req, r)
    /\ view' = NoView
    /\ UNCHANGED <<forms, input, adm, made>>

---------------------------------------------------------------------------
(* POST /api/forms, PUT /api/forms/:id and DELETE /api/forms/:id *)

SettingKeys == {"allowMultipleResponses", "requireEmail"}

\* { ...form.settings, ...settings }
MergeSettings(old, new) ==
    [k \in DOMAIN old \cup DOMAIN new |-> IF k \in DOMAIN new THEN new[k] ELSE old[k]]

\* the loop over the questions of the body: some multiple-choice question
\* has no options or fewer than 2
BadOptions(questions) ==
    \E i \in 1..Len(questions) :
        /\ questions[i].type = "multiple-choice"
        /\ Len(questions[i].options) < 2

\* the order values kept as the client sent them
SetOrderAsSent(questions) == questions

\* question.order = i + 1 for the question at index i (counted from 0)
SetOrder(questions) ==
    [i \in 1..Len(questions) |-> [questions[i] EXCEPT !.order = i]]

\* the _id of the n-th Form document created: ids are never used twice
FormIdOf(n) == <<"f1", "f2", "f3", "f4">>[n]

\* a chain without the length test
CreateValidationErrorsNone(questions) == {}

\* body('questions').isArray({ min: 1, max: 10 })
CreateValidationErrors(questions) ==
    IF Len(questions) < 1 \/ Len(questions) > 10 THEN {"questions"} ELSE {}

\* the unique index on publicUrl: the save of doc under id f is refused
\* when another stored form has the same publicUrl
DuplicateUrl(f, doc) ==
    \E g \in DOMAIN forms \ {f} : forms[g].publicUrl = doc.publicUrl

\* settings is <<>> when the body has none; the schema defaults fill the rest
CreateForm(u, title, questions, settings) ==
    /\ made < MaxForms
    /\ IF CreateValidationErrors(questions) # {}
       THEN /\ view' = AdminReply(400, "ValidationError")
            /\ UNCHANGED <<forms, made>>
       ELSE IF BadOptions(questions)
       THEN /\ view' = AdminReply(400, "TooFewOptions")
            /\ UNCHANGED <<forms, made>>
       ELSE \E url \in Urls :
              LET f == FormIdOf(made + 1)
                  doc == PreSave(NewForm(title, u, SetOrder(questions),
                                         MergeSettings(Settings(FALSE, FALSE),
                                                       IF settings # <<>> THEN settings[1]
                                                       ELSE <<>>)),
                                 url)
              IN  /\ made' = made + 1
                  /\ IF DuplicateUrl(f, doc)
                     THEN /\ view' = AdminReply(500, "ServerError")
                          /\ UNCHANGED forms
                     ELSE /\ forms' = (f :> doc) @@ forms
                          /\ view' = [AdminReply(201, "FormCreated") EXCEPT
                                         !.forms = (f :> doc)]
    /\ UNCHANGED <<responses, hist, req, res, input, adm>>

\* body('questions').optional().isArray({ min: 1, max: 10 })
UpdateValidationErrors(questions) ==
    IF questions # <<>> /\ (Len(questions[1]) < 1 \/ Len(questions[1]) > 10)
    THEN {"questions"} ELSE {}

\* a lookup by _id alone
OwnsAny(u, f) == f \in DOMAIN forms

\* Form.findOne({ _id, creator }): the form, when it exists and is the user's
Owns(u, f) == f \in DOMAIN forms /\ forms[f].creator = u

\* the document PUT saves: the fields of the body that are present replace
\* those of the stored form (settings are merged), the others are kept
Updated(doc, title, isActive, settings, questions) ==
    [doc EXCEPT !.title = IF title # <<>> THEN title[1] ELSE @,
                !.isActive = IF isActive # <<>> THEN isActive[1] ELSE @,
                !.settings = IF settings # <<>>
                             THEN MergeSettings(@, settings[1]) ELSE @,
                !.questions = IF questions # <<>> THEN SetOrder(questions[1]) ELSE @]

\* the stored answers of form f given the text and type of the questions qs
Resnapshot(store, f, qs) ==
    [i \in 1..Len(store) |->
        IF store[i].form # f THEN store[i]
        ELSE [store[i] EXCEPT !.answers =
                [j \in 1..Len(@) |->
                    LET k == FindQuestion(qs, @[j].questionId)
                    IN  IF k = 0 THEN @[j]
                        ELSE [@[j] EXCEPT !.questionText = qs[k].text,
                                          !.questionType = qs[k].type]]]]

\* an update that carries the new question texts into the stored responses
UpdateFormRetroactive(u, f, title, isActive, settings, questions) ==
    /\ IF UpdateValidationErrors(questions) # {}
       THEN /\ view' = AdminReply(400, "ValidationError")
            /\ UNCHANGED <<forms, responses>>
       ELSE IF ~Owns(u, f)
       THEN /\ view' = AdminReply(404, "FormNotFound")
            /\ UNCHANGED <<forms, responses>>
       ELSE IF questions # <<>> /\ BadOptions(questions[1])
       THEN /\ view' = AdminReply(400, "TooFewOptions")
            /\ UNCHANGED <<forms, responses>>
       ELSE \E url \in (IF forms[f].publicUrl = NoUrl THEN Urls ELSE {NoUrl}) :
              LET doc == PreSave(Updated(forms[f], title, isActive, settings, questions), url)
              IN  /\ forms' = [forms EXCEPT ![f] = doc]
                  /\ responses' = Resnapshot(responses, f, doc.questions)
                  /\ view' = [AdminReply(200, "FormUpdated") EXCEPT !.forms = (f :> doc)]
    /\ UNCHANGED <<hist, req, res, input, adm, made>>

\* an update that saves title, isActive and settings before it looks at the
\* questions
UpdateFormEager(u, f, title, isActive, settings, questions) ==
    /\ IF UpdateValidationErrors(questions) # {}
       THEN /\ view' = AdminReply(400, "ValidationError")
            /\ UNCHANGED forms
       ELSE IF ~Owns(u, f)
       THEN /\ view' = AdminReply(404, "FormNotFound")
            /\ UNCHANGED forms
       ELSE IF questions # <<>> /\ BadOptions(questions[1])
       THEN /\ view' = AdminReply(400, "TooFewOptions")
            /\ forms' = [forms EXCEPT
                           ![f] = Updated(forms[f], title, isActive, settings, <<>>)]
       ELSE \E url \in (IF forms[f].publicUrl = NoUrl THEN Urls ELSE {NoUrl}) :
              LET doc == PreSave(Updated(forms[f], title, isActive, settings, questions), url)
              IN  /\ forms' = [forms EXCEPT ![f] = doc]
                  /\ view' = [AdminReply(200, "FormUpdated") EXCEPT !.forms = (f :> doc)]
    /\ UNCHANGED <<responses, hist, req, res, input, adm, made>>

\* an absent body field is <<>>, a present one is <<value>>
UpdateForm(u, f, title, isActive, settings, questions) ==
    /\ IF UpdateValidationErrors(questions) # {}
       THEN /\ view' = AdminReply(400, "ValidationError")
            /\ UNCHANGED forms
       ELSE IF ~Owns(u, f)
       THEN /\ view' = AdminReply(404, "FormNotFound")
            /\ UNCHANGED forms
       ELSE IF questions # <<>> /\ BadOptions(questions[1])
       THEN /\ view' = AdminReply(400, "TooFewOptions")
            /\ UNCHANGED forms
       ELSE \E url \in (IF forms[f].publicUrl = NoUrl THEN Urls ELSE {NoUrl}) :
              LET doc == PreSave(Updated(forms[f], title, isActive, settings, questions), url)
              IN  /\ forms' = [forms EXCEPT ![f] = doc]
                  /\ view' = [AdminReply(200, "FormUpdated") EXCEPT !.forms = (f :> doc)]
    /\ UNCHANGED <<responses, hist, req, res, input, adm, made>>

DeleteForm(u, f) ==
    /\ IF ~Owns(u, f)
       THEN /\ view' = AdminReply(404, "FormNotFound")
            /\ UNCHANGED forms
       ELSE /\ forms' = Without(forms, f)
            /\ view' = AdminReply(200, "FormDeleted")
    /\ UNCHANGED <<responses, hist, req, res, input, adm, made>>

---------------------------------------------------------------------------
(* GET /api/forms, GET /api/forms/:id *)

\* the part of a collection of forms with ids in S
FormsIn(S) == [g \in S |-> forms[g]]

\* Form.find({ creator })
ListForms(u) ==
    /\ view' = [AdminReply(200, "Forms") EXCEPT
                   !.forms = FormsIn({g \in DOMAIN forms : forms[g].creator = u})]
    /\ UNCHANGED <<forms, responses, hist, req, res, input, adm, made>>

GetForm(u, f) ==
    /\ view' = IF ~Owns(u, f)
               THEN AdminReply(404, "FormNotFound")
               ELSE [AdminReply(200, "Form") EXCEPT !.forms = FormsIn({f})]
    /\ UNCHANGED <<forms, responses, hist, req, res, input, adm, made>>

---------------------------------------------------------------------------
(* GET /api/forms/public/:publicUrl *)

\* a lookup by publicUrl alone
GetPublicFormAnyState(url) ==
    LET found == {g \in DOMAIN forms : forms[g].publicUrl = url}
    IN  /\ view' = IF found = {}
                   THEN AdminReply(404, "FormNotFoundOrInactive")
                   ELSE [AdminReply(200, "PublicForm") EXCEPT !.forms = FormsIn(found)]
        /\ UNCHANGED <<forms, responses, hist, req, res, input, adm, made>>

\* Form.findOne({ publicUrl, isActive: true }); no auth
GetPublicForm(url) ==
    LET found == {g \in DOMAIN forms : forms[g].publicUrl = url /\ forms[g].isActive}
    IN  /\ view' = IF found = {}
                   THEN AdminReply(404, "FormNotFoundOrInactive")
                   ELSE [AdminReply(200, "PublicForm") EXCEPT !.forms = FormsIn(found)]
        /\ UNCHANGED <<forms, responses, hist, req, res, input, adm, made>>

---------------------------------------------------------------------------
(* GET /api/responses/form/:formId, .../export, GET /api/responses/:id *)

RECURSIVE SelectForm(_, _)
\* Response.find({ form: f }) over a collection, in insertion order
SelectForm(store, f) ==
    IF store = <<>> THEN <<>>
    ELSE IF store[1].form = f
    THEN <<store[1]>> \o SelectForm(Tail(store), f)
    ELSE SelectForm(Tail(store), f)

\* .sort({ submittedAt: -1 }): the latest first
Latest(found) == [i \in 1..Len(found) |-> found[Len(found) + 1 - i]]

ListResponses(u, f) ==
    /\ view' = IF ~Owns(u, f)
               THEN AdminReply(404, "FormNotFound")
               ELSE [AdminReply(200, "Responses") EXCEPT
                        !.responses = Latest(SelectForm(responses, f))]
    /\ UNCHANGED <<forms, responses, hist, req, res, input, adm, made>>

\* the CSV is written to a file named with Date.now() and read back from a
\* file named with a later Date.now(): the reply carries the rows when the
\* two names agree and fails when they differ
ExportResponses(u, f) ==
    /\ IF ~Owns(u, f)
       THEN view' = AdminReply(404, "FormNotFound")
       ELSE IF SelectForm(responses, f) = <<>>
       THEN view' = AdminReply(404, "NoResponses")
       ELSE \/ view' = [AdminReply(200, "Csv") EXCEPT
                           !.responses = Latest(SelectForm(responses, f))]
            \/ view' = AdminReply(500, "ExportFailed")
    /\ UNCHANGED <<forms, responses, hist, req, res, input, adm, made>>

\* Response.findById(id).populate('form', 'title creator'): the id of a
\* response is its position in the collection; the form of the response is
\* null when it has been deleted and response.form.creator then throws
GetResponse(u, i) ==
    /\ view' = IF i \notin 1..Len(responses)
               THEN AdminReply(404, "ResponseNotFound")
               ELSE IF responses[i].form \notin DOMAIN forms
               THEN AdminReply(500, "ServerError")
               ELSE IF forms[responses[i].form].creator # u
               THEN AdminReply(403, "AccessDenied")
               ELSE [AdminReply(200, "Response") EXCEPT
                        !.responses = <<responses[i]>>,
                        !.forms = FormsIn({responses[i].form})]
    /\ UNCHANGED <<forms, responses, hist, req, res, input, adm, made>>

---------------------------------------------------------------------------
(* GET /api/responses/form/:formId/summary *)

\* response.answers.find(a => a.questionId === question._id): index, 0 if none
FindStored(answers, qid) ==
    LET hits == {i \in 1..Len(answers) : answers[i].questionId = qid}
    IN  IF hits = {} THEN 0 ELSE CHOOSE i \in hits : \A j \in hits : i <= j

\* a tally that forgets the earlier values when a new one comes
CountLatest(tally, v) ==
    IF \E i \in 1..Len(tally) : tally[i].value = v
    THEN [i \in 1..Len(tally) |->
             IF tally[i].value = v
             THEN [tally[i] EXCEPT !.count = @ + 1] ELSE tally[i]]
    ELSE <<[value |-> v, count |-> 1]>>

\* a count that never goes beyond 1
CountOnce(tally, v) ==
    IF \E i \in 1..Len(tally) : tally[i].value = v
    THEN tally
    ELSE Append(tally, [value |-> v, count |-> 1])

\* the key of an object literal that names its prototype, not a property
ProtoKey == "__proto__"

\* answers[v] = (answers[v] || 0) + 1 on an object: its keys in insertion
\* order. For v = "__proto__" the read gives Object.prototype, the sum is the
\* string "[object Object]1", and the assignment of a string to __proto__
\* does nothing: the object gets no key.
Count(tally, v) ==
    IF v = ProtoKey THEN tally
    ELSE IF \E i \in 1..Len(tally) : tally[i].value = v
    THEN [i \in 1..Len(tally) |->
             IF tally[i].value = v
             THEN [tally[i] EXCEPT !.count = @ + 1] ELSE tally[i]]
    ELSE Append(tally, [value |-> v, count |-> 1])

RECURSIVE CountAnswers(_, _, _)
\* the inner loop over the first n responses for one question
CountAnswers(question, found, n) ==
    IF n = 0 THEN [totalAnswers |-> 0, answers |-> <<>>]
    ELSE LET sofar == CountAnswers(question, found, n - 1)
             k == FindStored(found[n].answers, question.id)
         IN  IF k = 0 THEN sofar
             ELSE [totalAnswers |-> sofar.totalAnswers + 1,
                   answers |-> IF question.type = "multiple-choice"
                               THEN Count(sofar.answers, found[n].answers[k].answer)
                               ELSE sofar.answers]

QuestionSummary(question, found) ==
    LET c == CountAnswers(question, found, Len(found))
    IN  [questionId |-> question.id, questionText |-> question.text,
         questionType |-> question.type,
         totalAnswers |-> c.totalAnswers, answers |-> c.answers]

\* a summary with entries for the answered questions only
SummarizeAnswered(form, total, found) ==
    [totalResponses |-> total,
     questions |-> SelectSeq([k \in 1..Len(form.questions) |->
                                 QuestionSummary(form.questions[k], found)],
                             LAMBDA e : e.totalAnswers > 0)]

\* the summary object: total is what countDocuments gave, found what find gave
Summarize(form, total, found) ==
    [totalResponses |-> total,
     questions |-> [k \in 1..Len(form.questions) |->
                       QuestionSummary(form.questions[k], found)]]

\* Form.findOne({ _id, creator }) and the 404 reply
SummaryFindForm(u, f) ==
    /\ adm = <<>>
    /\ IF ~Owns(u, f)
       THEN /\ view' = AdminReply(404, "FormNotFound")
            /\ UNCHANGED adm
       ELSE /\ view' = NoView
            /\ adm' = <<[pc |-> "count", formId |-> f, form |-> forms[f], total |-> 0]>>
    /\ UNCHANGED <<forms, responses, hist, req, res, input, made>>

\* Response.countDocuments({ form })
SummaryCount ==
    /\ adm # <<>>
    /\ adm[1].pc = "count"
    /\ adm' = <<[adm[1] EXCEPT !.pc = "scan",
                               !.total = Len(SelectForm(responses, adm[1].formId))]>>
    /\ view' = NoView
    /\ UNCHANGED <<forms, responses, hist, req, res, input, made>>

\* a summary handler that, like the export, answers 404 when it finds no
\* response
SummaryScanSome ==
    /\ adm # <<>>
    /\ adm[1].pc = "scan"
    /\ view' = IF SelectForm(responses, adm[1].formId) = <<>>
               THEN AdminReply(404, "NoResponses")
               ELSE [AdminReply(200, "Summary") EXCEPT
                        !.summary = <<Summarize(adm[1].form, adm[1].total,
                                                SelectForm(responses, adm[1].formId))>>]
    /\ adm' = <<>>
    /\ UNCHANGED <<forms, responses, hist, req, res, input, made>>

\* Response.find({ form }), the two loops and the reply
SummaryScan ==
    /\ adm # <<>>
    /\ adm[1].pc = "scan"
    /\ view' = [AdminReply(200, "Summary") EXCEPT
                   !.summary = <<Summarize(adm[1].form, adm[1].total,
                                           SelectForm(responses, adm[1].formId))>>]
    /\ adm' = <<>>
    /\ UNCHANGED <<forms, responses, hist, req, res, input, made>>

---------------------------------------------------------------------------
(* The running server: two connections submit, the owners edit and delete *)

\* answers arrays the respondents of the running server send
LiveAnswers ==
    {<<>>,
     <<Ans("q1", "A")>>,
     <<Ans("q1", "A"), Ans("q2", "A")>>,
     <<Ans("q1", "A"), Ans("q2", "C")>>,
     <<Ans("q2", "A"), Ans("q2", "A")>>,
     <<Ans("q1", "A"), Ans("q3", "A")>>}

\* the form the requests of the running server name: the one form it has had
LiveForms == {"f1"}

LiveRequests ==
    [formId : LiveForms, answers : LiveAnswers,
     submitterEmail : {NoEmail, "A@x.com"}, ip : {"10.0.0.1"}]

\* the server stops taking submissions when those stored and those in flight
\* would fill the collection
SubmitResponse(r) ==
    /\ input = <<>>
    /\ Len(responses) + Cardinality(DOMAIN req) < MaxResponses
    /\ \E raw \in LiveRequests : Handle(r, raw)
    /\ UNCHANGED input

\* bodies of the PUT requests the owners send: the activation flag and the
\* duplicate policy, or a new question list (Q1 reworded, Q2 dropped)
PutForm ==
    \E u \in Users, f \in LiveForms :
        \/ \E isActive \in {<<>>, <<TRUE>>, <<FALSE>>} :
               UpdateForm(u, f, <<>>, isActive, <<>>, <<>>)
        \/ \E settings \in {<<s>> : s \in [{"allowMultipleResponses"} -> BOOLEAN]} :
               UpdateForm(u, f, <<>>, <<>>, settings, <<>>)
        \/ UpdateForm(u, f, <<>>, <<>>, <<>>, <<(<<Q1b>>)>>)

DeleteFormBy == \E u \in Users, f \in LiveForms : DeleteForm(u, f)

Init ==
    /\ forms = ("f1" :> PreSave(NewForm("T1", "u1", <<Q1, Q2>>, Settings(FALSE, FALSE)),
                                "form-1"))
    /\ responses = <<>>
    /\ hist = <<>>
    /\ req = <<>>
    /\ res = [r \in Reqs |-> NoRes]
    /\ input = <<>>
    /\ adm = <<>>
    /\ view = NoView
    /\ made = 1

Next ==
    \/ \E r \in Reqs : SubmitResponse(r)
    \/ \E r \in Reqs : FindOne(r)
    \/ \E r \in Reqs : Save(r)
    \/ PutForm
    \/ DeleteFormBy

Spec == Init /\ [][Next]_vars

---------------------------------------------------------------------------
(* One submission handled alone against a given store *)

\* a stored response of form f as an earlier accepted submission left it
PriorResponse(f, qs, email, ip) ==
    [form |-> f,
     answers |-> [i \in 1..Len(qs) |->
        [questionId |-> qs[i].id, questionText |-> qs[i].text,
         questionType |-> qs[i].type, answer |-> "A"]],
     submitterEmail |-> email,
     ipAddress |-> ip]

PriorResponses ==
    {PriorResponse("f1", <<Q1, Q2>>, e, "10.0.0.1") : e \in {NoEmail, "a@x.com"}}
    \cup {PriorResponse("f2", <<Q3>>, e, "10.0.0.1") : e \in {NoEmail, "a@x.com"}}

\* the collection holds no response, or one earlier response
PriorStores == {<<>>} \cup {<<p>> : p \in PriorResponses}

\* the form an earlier response of f1 or f2 was checked against
PriorForm(f) ==
    IF f = "f1"
    THEN PreSave(NewForm("T1", "u1", <<Q1, Q2>>, Settings(FALSE, FALSE)), "form-1")
    ELSE PreSave(NewForm("T2", "u2", <<Q3>>, Settings(FALSE, TRUE)), "form-2")

\* f2 is live and asks for an e-mail address (settings.requireEmail); f1 is
\* deleted, inactive, or live with either duplicate policy
FormStores ==
    LET f2 == "f2" :> PreSave(NewForm("T2", "u2", <<Q3>>, Settings(FALSE, TRUE)), "form-2")
        f1 == PreSave(NewForm("T1", "u1", <<Q1, Q2>>, Settings(FALSE, FALSE)), "form-1")
    IN  {f2,
         f2 @@ ("f1" :> [f1 EXCEPT !.isActive = FALSE]),
         f2 @@ ("f1" :> f1),
         f2 @@ ("f1" :> [f1 EXCEPT !.settings.allowMultipleResponses = TRUE])}

SubmitInput ==
    /\ input # <<>>
    /\ res["r1"] = NoRes
    /\ Handle("r1", input[1])
    /\ UNCHANGED input

OneInit ==
    /\ forms \in FormStores
    /\ responses \in PriorStores
    /\ hist = [i \in 1..Len(responses) |->
                  [checked |-> TRUE, seen |-> 0, form |-> PriorForm(responses[i].form)]]
    /\ req = <<>>
    /\ res = [r \in Reqs |-> NoRes]
    /\ input \in {<<b>> : b \in Requests}
    /\ adm = <<>>
    /\ view = NoView
    /\ made = 2

OneNext ==
    \/ SubmitInput
    \/ FindOne("r1")
    \/ Save("r1")

OneSpec == OneInit /\ [][OneNext]_vars

---------------------------------------------------------------------------
(* The server with its admins: one connection submits to f1, the two users *)
(* edit, delete and read                                                   *)

\* the two submissions the respondent sends: an answer to each question of
\* f1 as created, and an answer to the one question f1 has after its edit
AdminRequests ==
    [formId : LiveForms,
     answers : {<<Ans("q1", "A"), Ans("q2", "B")>>, <<Ans("q1", "B")>>},
     submitterEmail : {NoEmail}, ip : {"10.0.0.1"}]

SubmitToAdmins ==
    /\ input = <<>>
    /\ Len(responses) + Cardinality(DOMAIN req) < MaxResponses
    /\ \E raw \in AdminRequests : Handle("r1", raw)
    /\ UNCHANGED input

\* the edits the users send: a new title with the form closed, the form
\* opened again, and a new question list with the duplicate policy lifted
EditFormBy(u, f) ==
    \/ UpdateForm(u, f, <<"T2">>, <<FALSE>>, <<>>, <<>>)
    \/ UpdateForm(u, f, <<>>, <<TRUE>>, <<>>, <<>>)
    \/ UpdateForm(u, f, <<>>, <<>>, <<[allowMultipleResponses |-> TRUE]>>,
                  <<(<<Q1b>>)>>)

EditForm == \E u \in Users, f \in LiveForms : EditFormBy(u, f)

\* ids of GET /api/responses/:id: those of the stored responses and one more
ResponseIds == 1..(MaxResponses + 1)

\* f1 of u1 and f2 of u2; f2 has one response
AdminInit ==
    /\ forms = ("f1" :> PriorForm("f1")) @@ ("f2" :> PriorForm("f2"))
    /\ responses = <<PriorResponse("f2", <<Q3>>, NoEmail, "10.0.0.2")>>
    /\ hist = <<[checked |-> TRUE, seen |-> 0, form |-> PriorForm("f2")]>>
    /\ req = <<>>
    /\ res = [r \in Reqs |-> NoRes]
    /\ input = <<>>
    /\ adm = <<>>
    /\ view = NoView
    /\ made = 2

AdminNext ==
    \/ SubmitToAdmins
    \/ FindOne("r1")
    \/ Save("r1")
    \/ EditForm
    \/ DeleteFormBy
    \/ \E u \in Users : ListForms(u)
    \/ \E u \in Users, f \in FormIds : GetForm(u, f)
    \/ \E u \in Users, f \in FormIds : ListResponses(u, f)
    \/ \E u \in Users, f \in FormIds : ExportResponses(u, f)
    \/ \E u \in Users, i \in ResponseIds : GetResponse(u, i)
    \/ \E u \in Users, f \in FormIds : SummaryFindForm(u, f)
    \/ SummaryCount
    \/ SummaryScan

AdminSpec == AdminInit /\ [][AdminNext]_vars

\* the same server when it never stops: a handler in flight goes on (the
\* event loop runs every pending callback) and requests keep arriving
FairAdminSpec == AdminSpec /\ WF_vars(AdminNext)

---------------------------------------------------------------------------
(* The public page: the server with its admins, while visitors open the *)
(* public links                                                         *)

\* the links visitors open: those of f1 and f2 and one no form has
PublicUrls == Urls \cup {"form-9"}

OpenPublicForm == \E url \in PublicUrls : GetPublicForm(url)

PublicNext ==
    \/ AdminNext
    \/ OpenPublicForm

PublicSpec == AdminInit /\ [][PublicNext]_vars

---------------------------------------------------------------------------
(* The forms of the two users: created, edited, deleted *)

\* a choice question with one option
Q2one == [Q2 EXCEPT !.options = <<"A">>]

\* question lists of the create and update bodies
QuestionLists == {<<Q1, Q2>>, <<Q3>>, <<>>, <<Q1, Q2one>>}

CreateFormBy ==
    \E u \in Users, questions \in QuestionLists :
        \/ CreateForm(u, "T1", questions, <<>>)
        \/ CreateForm(u, "T1", questions, <<[requireEmail |-> TRUE]>>)

\* the ids of the Form documents created so far
MadeForms == {FormIdOf(n) : n \in 1..made}

PutAnyForm ==
    \E u \in Users, f \in MadeForms :
        \/ \E isActive \in {<<TRUE>>, <<FALSE>>} :
               UpdateForm(u, f, <<>>, isActive, <<>>, <<>>)
        \/ \E questions \in QuestionLists :
               UpdateForm(u, f, <<>>, <<>>, <<>>, <<questions>>)
        \/ UpdateForm(u, f, <<"T2">>, <<>>, <<[allowMultipleResponses |-> TRUE]>>, <<>>)

DeleteAnyForm == \E u \in Users, f \in MadeForms : DeleteForm(u, f)

FormInit ==
    /\ forms = <<>>
    /\ responses = <<>>
    /\ hist = <<>>
    /\ req = <<>>
    /\ res = [r \in Reqs |-> NoRes]
    /\ input = <<>>
    /\ adm = <<>>
    /\ view = NoView
    /\ made = 0

FormNext ==
    \/ CreateFormBy
    \/ PutAnyForm
    \/ DeleteAnyForm

FormSpec == FormInit /\ [][FormNext]_vars

---------------------------------------------------------------------------
(* The question lists a client can send: forms created and edited with them *)

\* a text question sent with options, and a choice question sent with the
\* same option twice; both carry an order value of the client's choosing
Q1opt == [Q1 EXCEPT !.options = <<"A", "B">>, !.order = 5]
Q2dup == [Q2 EXCEPT !.options = <<"A", "A">>, !.order = 5]

\* n text questions, as a long body lists them
ManyQuestions(n) ==
    [i \in 1..n |->
        [id |-> <<"q1", "q2", "q3", "q4", "q5", "q6", "q7", "q8", "q9", "q10", "q11">>[i],
         text |-> "Comment", type |-> "text", options |-> <<>>,
         required |-> FALSE, order |-> i]]

\* question lists of the create and update bodies: well formed, empty, with
\* a one-option choice question, with options the schema does not foresee,
\* of the greatest length allowed and one longer
BodyLists ==
    {<<Q3>>, <<>>, <<Q1, Q2one>>, <<Q1opt, Q2dup>>,
     ManyQuestions(10), ManyQuestions(11)}

\* u1 creates the forms; u1 and u2 send the updates
CreateBody ==
    \E questions \in BodyLists :
        \/ CreateForm("u1", "T1", questions, <<>>)
        \/ CreateForm("u1", "T1", <<Q3>>, <<[requireEmail |-> TRUE]>>)

\* a PUT body: an absent field is <<>>, a present one is <<value>>
PutOf(title, isActive, settings, questions) ==
    [title |-> title, isActive |-> isActive, settings |-> settings,
     questions |-> questions]

\* the PUT bodies: a question list alone; a title alone; and a new title, the
\* form closed and the duplicate policy lifted together with a question list
\* that is accepted, empty, or has a one-option choice question
PutBodies ==
    {PutOf(<<>>, <<>>, <<>>, <<questions>>) : questions \in BodyLists \ {<<Q1, Q2one>>}}
    \cup {PutOf(<<"T2">>, <<>>, <<>>, <<>>)}
    \cup {PutOf(<<"T2">>, <<FALSE>>, <<[allowMultipleResponses |-> TRUE]>>, <<questions>>) :
             questions \in {<<Q3>>, <<>>, <<Q1, Q2one>>}}

PutBody ==
    \E u \in Users, f \in MadeForms, b \in PutBodies :
        UpdateForm(u, f, b.title, b.isActive, b.settings, b.questions)

BodyNext ==
    \/ CreateBody
    \/ PutBody

BodySpec == FormInit /\ [][BodyNext]_vars

---------------------------------------------------------------------------
(* Summaries of a given store *)

\* an optional text question
Q4 == [id |-> "q4", text |-> "Comment", type |-> "text",
       options |-> <<>>, required |-> FALSE, order |-> 2]

\* the question of a stored answer, by its id
QuestionOf(qid) ==
    CASE qid = "q1" -> Q1 [] qid = "q2" -> Q2 [] qid = "q3" -> Q3 [] qid = "q4" -> Q4
      [] qid = "q5" -> [id |-> "q5", text |-> "Pick", type |-> "multiple-choice",
                        options |-> <<"A", "__proto__">>, required |-> FALSE,
                        order |-> 1]

\* the response an accepted submission to form f with these answers left
Stored(f, answers) ==
    [form |-> f,
     answers |-> [i \in 1..Len(answers) |->
        [questionId |-> answers[i].questionId,
         questionText |-> QuestionOf(answers[i].questionId).text,
         questionType |-> QuestionOf(answers[i].questionId).type,
         answer |-> answers[i].answer]],
     submitterEmail |-> NoEmail,
     ipAddress |-> "10.0.0.1"]

\* responses of f1 accepted while its questions were Q2, Q4 (both optional,
\* so that two answers to one question pass the count and required checks),
\* and a response of f2
StoredResponses ==
    {Stored("f1", <<Ans("q2", "A"), Ans("q4", "C")>>),
     Stored("f1", <<Ans("q2", "B"), Ans("q4", "A")>>),
     Stored("f1", <<Ans("q4", "B"), Ans("q2", "A")>>),
     Stored("f1", <<Ans("q2", "A"), Ans("q2", "B")>>),
     Stored("f1", <<Ans("q2", "B"), Ans("q2", "B")>>),
     Stored("f1", <<Ans("q4", "A"), Ans("q4", "B")>>),
     Stored("f2", <<Ans("q3", "A")>>)}

SummaryInit ==
    /\ forms \in {("f1" :> [PriorForm("f1") EXCEPT !.questions = SetOrder(qs)])
                     @@ ("f2" :> PriorForm("f2")) : qs \in {<<Q2, Q4>>, <<Q4>>}}
    /\ responses \in SeqsUpTo(StoredResponses, MaxResponses)
    /\ hist = [i \in 1..Len(responses) |->
                  [checked |-> TRUE, seen |-> 0,
                   form |-> IF responses[i].form = "f1"
                            THEN [PriorForm("f1") EXCEPT !.questions = SetOrder(<<Q2, Q4>>)]
                            ELSE PriorForm("f2")]]
    /\ req = <<>>
    /\ res = [r \in Reqs |-> NoRes]
    /\ input = <<>>
    /\ adm = <<>>
    /\ view = NoView
    /\ made = 2

SummaryNext ==
    \/ \E u \in Users, f \in FormIds : SummaryFindForm(u, f)
    \/ SummaryCount
    \/ SummaryScan

SummarySpec == SummaryInit /\ [][SummaryNext]_vars

---------------------------------------------------------------------------
(* Summaries of a form with an option named __proto__ *)

\* an optional choice question whose second option is the string __proto__
Q5 == QuestionOf("q5")

\* responses of f1 accepted while its questions were Q5, Q4
TallyResponses ==
    {Stored("f1", <<Ans("q5", "A"), Ans("q4", "C")>>),
     Stored("f1", <<Ans("q5", ProtoKey), Ans("q4", "C")>>),
     Stored("f1", <<Ans("q4", "A"), Ans("q5", "A")>>),
     Stored("f1", <<Ans("q4", "A"), Ans("q4", "B")>>)}

TallyInit ==
    /\ forms = ("f1" :> [PriorForm("f1") EXCEPT !.questions = SetOrder(<<Q5, Q4>>)])
                  @@ ("f2" :> PriorForm("f2"))
    /\ responses \in SeqsUpTo(TallyResponses, MaxResponses)
    /\ hist = [i \in 1..Len(responses) |->
                  [checked |-> TRUE, seen |-> 0, form |-> forms["f1"]]]
    /\ req = <<>>
    /\ res = [r \in Reqs |-> NoRes]
    /\ input = <<>>
    /\ adm = <<>>
    /\ view = NoView
    /\ made = 2

TallySpec == TallyInit /\ [][SummaryNext]_vars

---------------------------------------------------------------------------
(* Vocabulary of the properties of one submission handled alone (OneSpec) *)

\* the request as sent, and as the handler sees it after the validator chain
Sent == input[1]
Body == Sanitize(input[1])

Studied == input # <<>>

\* the step in which the reply to the studied request is sent
ReplyStep == res["r1"] = NoRes /\ res'["r1"] # NoRes
Replied == res["r1"] # NoRes
Kind == res["r1"].kind

FormLive == Body.formId \in DOMAIN forms /\ forms[Body.formId].isActive
TheForm == forms[Body.formId]

\* the handler got as far as the duplicate check (its checks 1-4 passed)
ReachedDuplicateCheck ==
    /\ Validate(Body, forms) = NoRes
    /\ ~TheForm.settings.allowMultipleResponses

\* every answer names a question of the form
AllQuestionsKnown ==
    \A i \in 1..Len(Body.answers) :
        \E k \in 1..Len(TheForm.questions) :
            TheForm.questions[k].id = Body.answers[i].questionId

---------------------------------------------------------------------------
(* C1 *)

\* C1: for a form with allowMultipleResponses = false and a submission
\* without submitterEmail that reaches the duplicate check, if a response of
\* the same form was stored from the same address of origin, the reply is
\* DuplicateSubmission and nothing is stored.
C1_DuplicateByOrigin ==
    [][(/\ Studied
        /\ ReplyStep
        /\ ReachedDuplicateCheck
        /\ Sent.submitterEmail = NoEmail
        /\ \E i \in 1..Len(responses) :
              /\ responses[i].form = Sent.formId
              /\ responses[i].ipAddress = Sent.ip)
       => (res'["r1"].kind = "DuplicateSubmission" /\ responses' = responses)]_vars

---------------------------------------------------------------------------
(* C2 *)

\* C2 as stated: a submission that reaches the duplicate check with
\* submitterEmail e (as the handler reads it from the request body) is
\* rejected as DuplicateSubmission if a stored response of the form has
\* submitterEmail e, and is accepted if none has.
C2_AsStated ==
    [][(/\ Studied
        /\ ReplyStep
        /\ ReachedDuplicateCheck
        /\ Body.submitterEmail # NoEmail)
       => IF \E i \in 1..Len(responses) :
                /\ responses[i].form = Body.formId
                /\ responses[i].submitterEmail = Body.submitterEmail
          THEN res'["r1"].kind = "DuplicateSubmission"
          ELSE res'["r1"].kind = "Accepted"]_vars

\* C2 amended: a submission that reaches the duplicate check with
\* submitterEmail e is rejected as DuplicateSubmission, storing nothing,
\* exactly if a stored response of the form has e, as normalized by the
\* validator chain, as submitterEmail; otherwise it is accepted and stored when every answer
\* names a question of the form, and ends in a server error that stores
\* nothing when some answer does not.
C2_DuplicateByEmail ==
    [][(/\ Studied
        /\ ReplyStep
        /\ ReachedDuplicateCheck
        /\ Sent.submitterEmail # NoEmail)
       => IF \E i \in 1..Len(responses) :
                /\ responses[i].form = Sent.formId
                /\ responses[i].submitterEmail = NormalizeEmail(Sent.submitterEmail)
          THEN res'["r1"].kind = "DuplicateSubmission" /\ responses' = responses
          ELSE IF AllQuestionsKnown
          THEN /\ res'["r1"].kind = "Accepted"
               /\ Len(responses') = Len(responses) + 1
               /\ responses'[Len(responses')].submitterEmail
                     = NormalizeEmail(Sent.submitterEmail)
          ELSE res'["r1"].kind = "ServerError" /\ responses' = responses]_vars

\* "a@x.com" has a response of f1 and resubmits: rejected as a duplicate
C2_Witness ==
    /\ Studied
    /\ Kind = "DuplicateSubmission"
    /\ Sent.formId = "f1"
    /\ Sent.submitterEmail = "a@x.com"
    /\ \E i \in 1..Len(responses) :
          responses[i].form = "f1" /\ responses[i].submitterEmail = "a@x.com"

---------------------------------------------------------------------------
(* C3 *)

\* C3: the duplicate check is a lookup followed, in a later step, by the
\* save; two stored responses of one form with the same submitterEmail, the
\* later of which was looked up, exist only when that lookup ran before the
\* earlier response was saved (the two submissions overlapped).
C3_DuplicatesOnlyByOverlap ==
    \A i, j \in 1..Len(responses) :
        (/\ i < j
         /\ responses[i].form = responses[j].form
         /\ responses[i].submitterEmail = responses[j].submitterEmail
         /\ responses[j].submitterEmail # NoEmail
         /\ hist[j].checked)
        => hist[j].seen < i

\* two stored responses of one form with the same submitterEmail, both saved
\* by submissions that ran the duplicate lookup, while the form still
\* forbids multiple responses
C3_Witness ==
    \E i, j \in 1..Len(responses) :
        /\ i < j
        /\ responses[i].form = responses[j].form
        /\ responses[i].submitterEmail = responses[j].submitterEmail
        /\ responses[j].submitterEmail # NoEmail
        /\ hist[i].checked
        /\ hist[j].checked
        /\ responses[i].form \in DOMAIN forms
        /\ ~forms[responses[i].form].settings.allowMultipleResponses

---------------------------------------------------------------------------
(* C4 *)

\* C4: for the form with a required text question and an optional choice
\* question, a submission that answers only the required question (the
\* optional one left out, or sent as the empty string) is accepted and a
\* response is stored.
C4_OptionalMayBeSkipped ==
    [][(/\ Studied
        /\ ReplyStep
        /\ FormLive
        /\ TheForm.questions = <<Q1, Q2>>
        /\ TheForm.settings.allowMultipleResponses
        /\ Sent.submitterEmail = NoEmail
        /\ Sent.answers \in {<<Ans("q1", "A")>>, <<Ans("q1", "A"), Ans("q2", "")>>})
       => (res'["r1"].kind = "Accepted" /\ Len(responses') = Len(responses) + 1)]_vars

---------------------------------------------------------------------------
(* C5 *)

\* empty, or only whitespace
Blank(v) == v \in {"", " "}

\* the e-mail address of the request, if any, is well-formed
SenderWellFormed == Sent.submitterEmail = NoEmail \/ IsEmail(Sent.submitterEmail)

\* the required questions without an answer, or with a blank one
RequiredUnanswered ==
    {k \in 1..Len(TheForm.questions) :
        /\ TheForm.questions[k].required
        /\ \/ \A i \in 1..Len(Sent.answers) :
                 Sent.answers[i].questionId # TheForm.questions[k].id
           \/ \E i \in 1..Len(Sent.answers) :
                 /\ Sent.answers[i].questionId = TheForm.questions[k].id
                 /\ Blank(Sent.answers[i].answer)}

\* C5: for an active form and a submission with one answer per question, if a
\* required question has no answer with its questionId, or an answer that is
\* empty or only whitespace, the reply is RequiredQuestionUnanswered naming
\* such a question and nothing is stored.  Stated for the requests that the
\* validator chain lets through (no empty string among the answer values):
\* the chain answers the others itself, with a validation error.
C5_RequiredNeedsValue ==
    [][(/\ Studied
        /\ ValidationErrors(Sent) = {}
        /\ FormLive
        /\ Len(Sent.answers) = Len(TheForm.questions)
        /\ RequiredUnanswered # {})
       => /\ responses' = responses
          /\ ReplyStep =>
                /\ res'["r1"].kind = "RequiredQuestionUnanswered"
                /\ res'["r1"].detail \in
                      {TheForm.questions[k].text : k \in RequiredUnanswered}]_vars

---------------------------------------------------------------------------
(* C6 *)

\* C6 as stated: when the form of the submission is missing or inactive the
\* reply is FormUnavailable whatever the answers are, and nothing is stored.
C6_AsStated ==
    [][(Studied /\ SenderWellFormed /\ ~FormLive)
       => /\ responses' = responses
          /\ ReplyStep => res'["r1"].kind = "FormUnavailable"]_vars

\* C6 amended: when the form of the submission is missing or inactive the
\* submission is rejected and nothing is stored whatever the answers are; the
\* reply is FormUnavailable when the request passes the validator chain (at
\* least one answer, no empty answer value, a well-formed e-mail address if
\* any), and a validation error when it does not.
C6_UnavailableFormRejects ==
    [][(Studied /\ ~FormLive)
       => /\ responses' = responses
          /\ ReplyStep =>
                res'["r1"].kind = IF ValidationErrors(Sent) = {}
                                  THEN "FormUnavailable" ELSE "ValidationError"]_vars

\* an inactive form answers FormUnavailable to a submission with a wrong
\* number of answers, one of them blank
C6_Witness ==
    /\ Studied
    /\ Sent.formId \in DOMAIN forms
    /\ ~forms[Sent.formId].isActive
    /\ Len(Sent.answers) # Len(forms[Sent.formId].questions)
    /\ \E i \in 1..Len(Sent.answers) : Sent.answers[i].answer = " "
    /\ Kind = "FormUnavailable"

---------------------------------------------------------------------------
(* C7 *)

\* C7 as stated: for an active form, a submission whose number of answers
\* differs from the number of questions (zero answers included) gets the
\* reply AnswerCountMismatch and nothing is stored.
C7_AsStated ==
    [][(/\ Studied
        /\ SenderWellFormed
        /\ FormLive
        /\ Len(Sent.answers) # Len(TheForm.questions))
       => /\ responses' = responses
          /\ ReplyStep => res'["r1"].kind = "AnswerCountMismatch"]_vars

\* C7 amended: for an active form, a submission whose number of answers
\* differs from the number of questions is rejected and nothing is stored;
\* the reply is AnswerCountMismatch when the request passes the validator
\* chain, and a validation error when it does not (zero answers, an empty
\* answer value, a malformed e-mail address).
C7_CountMismatchRejects ==
    [][(/\ Studied
        /\ FormLive
        /\ Len(Sent.answers) # Len(TheForm.questions))
       => /\ responses' = responses
          /\ ReplyStep =>
                res'["r1"].kind = IF ValidationErrors(Sent) = {}
                                  THEN "AnswerCountMismatch" ELSE "ValidationError"]_vars

\* an active form answers AnswerCountMismatch to more answers than questions
C7_Witness ==
    /\ Studied
    /\ FormLive
    /\ Len(Sent.answers) > Len(TheForm.questions)
    /\ Kind = "AnswerCountMismatch"

---------------------------------------------------------------------------
(* C8 *)

\* the handler got as far as the option check (its checks 1-3 passed)
ReachedOptionCheck ==
    /\ ValidationErrors(Sent) = {}
    /\ FormLive
    /\ Len(Sent.answers) = Len(TheForm.questions)
    /\ \A k \in 1..Len(TheForm.questions) :
          TheForm.questions[k].required =>
             \E i \in 1..Len(Sent.answers) :
                Sent.answers[i].questionId = TheForm.questions[k].id

\* some answer is to a choice question and is none of its options
SomeOptionInvalid ==
    \E i \in 1..Len(Sent.answers), k \in 1..Len(TheForm.questions) :
        /\ TheForm.questions[k].id = Sent.answers[i].questionId
        /\ TheForm.questions[k].type = "multiple-choice"
        /\ \A o \in 1..Len(TheForm.questions[k].options) :
              TheForm.questions[k].options[o] # Sent.answers[i].answer

---------------------------------------------------------------------------
(* C9 *)

\* the checks, in the order of the claim, that the studied submission fails
\* against the store it meets
FailsCheck(n) ==
    CASE n = 1 -> ~FormLive
      [] n = 2 -> FormLive /\ Len(Sent.answers) # Len(TheForm.questions)
      [] n = 3 -> /\ FormLive
                  /\ \E k \in 1..Len(TheForm.questions) :
                        /\ TheForm.questions[k].required
                        /\ \A i \in 1..Len(Sent.answers) :
                              Sent.answers[i].questionId # TheForm.questions[k].id
      [] n = 4 -> FormLive /\ SomeOptionInvalid
      [] n = 5 -> /\ FormLive
                  /\ ~TheForm.settings.allowMultipleResponses
                  /\ \E i \in 1..Len(responses) :
                        /\ responses[i].form = Sent.formId
                        /\ responses[i].submitterEmail =
                              IF Sent.submitterEmail # NoEmail
                              THEN NormalizeEmail(Sent.submitterEmail) ELSE Sent.ip

ReasonOf(n) ==
    CASE n = 1 -> "FormUnavailable"
      [] n = 2 -> "AnswerCountMismatch"
      [] n = 3 -> "RequiredQuestionUnanswered"
      [] n = 4 -> "InvalidOption"
      [] n = 5 -> "DuplicateSubmission"

Failed == {n \in 1..5 : FailsCheck(n)}
FirstFailed == CHOOSE n \in Failed : \A m \in Failed : n <= m

\* C9 as stated: a submission that fails several of the five checks is
\* rejected with the reason of the earliest of them.
C9_AsStated ==
    [][(Studied /\ SenderWellFormed /\ ReplyStep /\ Cardinality(Failed) >= 2)
       => res'["r1"].kind = ReasonOf(FirstFailed)]_vars

\* C9 amended: the validator chain runs before the five checks, and a request
\* that fails it is rejected with a validation error whichever checks it
\* fails; a request that passes it and fails one or more of the five checks
\* is rejected with the reason of the earliest of them in the order
\* FormUnavailable, AnswerCountMismatch, RequiredQuestionUnanswered,
\* InvalidOption, DuplicateSubmission; a request that fails none is not
\* rejected with any of the five reasons.
C9_FirstFailureWins ==
    [][(Studied /\ ReplyStep)
       => IF ValidationErrors(Sent) # {}
          THEN res'["r1"].kind = "ValidationError"
          ELSE IF Failed # {}
          THEN res'["r1"].kind = ReasonOf(FirstFailed)
          ELSE res'["r1"].kind \in {"Accepted", "ServerError"}]_vars

\* a request that passes the validator chain, misses a required question and
\* gives a non-option is told about the required question
C9_Witness ==
    /\ Studied
    /\ ValidationErrors(Sent) = {}
    /\ FailsCheck(3)
    /\ FailsCheck(4)
    /\ ~FailsCheck(1)
    /\ ~FailsCheck(2)
    /\ Kind = "RequiredQuestionUnanswered"

---------------------------------------------------------------------------
(* C10 *)

\* C10: a step that sends one of the five rejections changes neither the
\* Response collection nor the Form collection, and the Response collection
\* changes only by the save of a submission that has passed every check and
\* is answered Accepted.
C10_RejectionsWriteNothing ==
    [][/\ \A r \in Reqs :
             (res'[r] # res[r] /\ res'[r].kind \in Rejections)
             => (responses' = responses /\ forms' = forms)
       /\ responses' # responses
             => \E r \in DOMAIN req :
                   /\ req[r].pc = "save"
                   /\ Validate([formId |-> req[r].formId, answers |-> req[r].answers,
                                submitterEmail |-> req[r].submitterEmail,
                                ip |-> req[r].ip],
                               (req[r].formId :> req[r].form)) = NoRes
                   /\ res'[r].kind = "Accepted"
                   /\ responses' = Append(responses, NewResponse(req[r]))
                   /\ forms' = forms]_vars

\* a submission has been rejected as a duplicate of the one stored response
C10_Witness ==
    /\ Len(responses) = 1
    /\ \E r \in Reqs : res[r].kind = "DuplicateSubmission"
    /\ \E r \in Reqs : res[r].kind = "InvalidOption"

---------------------------------------------------------------------------
(* C11 *)

\* C11: every stored response has as many answers as its form had questions
\* when the submission read the form for its checks, and every stored answer
\* has the questionId of a question of the form as it was then, with that
\* question's text and type as questionText and questionType.
C11_SnapshotOfCheckedForm ==
    \A i \in 1..Len(responses) :
        /\ Len(responses[i].answers) = Len(hist[i].form.questions)
        /\ \A j \in 1..Len(responses[i].answers) :
              \E k \in 1..Len(hist[i].form.questions) :
                 /\ hist[i].form.questions[k].id = responses[i].answers[j].questionId
                 /\ hist[i].form.questions[k].text = responses[i].answers[j].questionText
                 /\ hist[i].form.questions[k].type = responses[i].answers[j].questionType

\* a response with two answers, with "Name" as the text of q1, is stored
\* for a form that now has one question, q1 with the text "Full name"
C11_Witness ==
    \E i \in 1..Len(responses) :
        /\ responses[i].form \in DOMAIN forms
        /\ forms[responses[i].form].questions = <<Q1b>>
        /\ Len(responses[i].answers) = 2
        /\ responses[i].answers[1].questionId = "q1"
        /\ responses[i].answers[1].questionText = "Name"

---------------------------------------------------------------------------
(* C12 *)

\* C12: a step that deletes no form (a form edit, a step of a submission, a
\* summary, list, export or other read) leaves every stored response where it
\* is and as it is: its answers with their questionText and questionType, its
\* submitterEmail and its ipAddress.
C12_ResponsesNeverChange ==
    [][DOMAIN forms' = DOMAIN forms
       => \A i \in 1..Len(responses) :
             /\ i <= Len(responses')
             /\ responses'[i] = responses[i]]_vars

\* the response of f1 stored when q1 read "Name" still says so after f1 has
\* been retitled and its questions replaced, after a response stored before
\* it, and in the export that has just been sent
C12_Witness ==
    /\ Len(responses) = 2
    /\ responses[2].form = "f1"
    /\ responses[2].answers[1].questionText = "Name"
    /\ "f1" \in DOMAIN forms
    /\ forms["f1"].title = "T2"
    /\ forms["f1"].questions = <<Q1b>>
    /\ view.kind = "Csv"
    /\ Len(view.responses) = 1

---------------------------------------------------------------------------
(* C13 *)

\* C13: once a form has been deleted, the responses that reference it are
\* eventually removed from the Response collection.
C13_DeletionCascades ==
    \A f \in FormIds :
        (f \notin DOMAIN forms /\ SelectForm(responses, f) # <<>>)
            ~> (SelectForm(responses, f) = <<>>)

---------------------------------------------------------------------------
(* C14 *)

\* C14: every stored form has a publicUrl, no two stored forms have the same
\* one, and no step changes the publicUrl of a form that stays stored
\* (updates of title, questions, isActive or settings included).
C14_PublicUrlFixedAndUnique ==
    /\ [](\A f \in DOMAIN forms :
             /\ forms[f].publicUrl # NoUrl
             /\ \A g \in DOMAIN forms \ {f} : forms[g].publicUrl # forms[f].publicUrl)
    /\ [][\A f \in DOMAIN forms \cap DOMAIN forms' :
             forms'[f].publicUrl = forms[f].publicUrl]_vars

\* two forms are stored, one of them with a new title, new questions and
\* closed, under the publicUrl it got when it was created
C14_Witness ==
    /\ DOMAIN forms = {"f1", "f2"}
    /\ forms["f1"].publicUrl = "form-1"
    /\ forms["f2"].publicUrl = "form-2"
    /\ forms["f1"].title = "T2"
    /\ forms["f1"].questions = <<Q3>>
    /\ ~forms["f1"].isActive
    /\ forms["f1"].settings.allowMultipleResponses

---------------------------------------------------------------------------
(* Vocabulary of the properties of a summary (SummarySpec) *)

\* the step that sends the summary, the form and the responses it is about,
\* and the summary sent
Scanning == adm # <<>> /\ adm[1].pc = "scan"
ScanForm == adm[1].form
ScanFound == SelectForm(responses, adm[1].formId)
Out == view'.summary[1]

\* the count a tally gives for the value v, 0 when v is no key of it
TallyOf(tally, v) ==
    LET hits == {i \in 1..Len(tally) : tally[i].value = v}
    IN  IF hits = {} THEN 0 ELSE tally[CHOOSE i \in hits : TRUE].count

\* a tally is a mapping: no value is a key twice
IsMapping(tally) ==
    \A i, j \in 1..Len(tally) : tally[i].value = tally[j].value => i = j

\* the responses of found with an answer to question qid
Answering(found, qid) ==
    {i \in 1..Len(found) :
        \E j \in 1..Len(found[i].answers) : found[i].answers[j].questionId = qid}

---------------------------------------------------------------------------
(* C15 *)

\* C15: the summary sent has one entry per question of the form, in the
\* order of the form's questions, and the totalAnswers of each entry is the
\* number of stored responses of the form that have an answer with the
\* question's id.
C15_EntryPerQuestion ==
    [][Scanning
       => /\ view'.kind = "Summary"
          /\ Len(Out.questions) = Len(ScanForm.questions)
          /\ \A k \in 1..Len(ScanForm.questions) :
                /\ Out.questions[k].questionId = ScanForm.questions[k].id
                /\ Out.questions[k].totalAnswers =
                      Cardinality({i \in 1..Len(responses) :
                          /\ responses[i].form = adm[1].formId
                          /\ \E j \in 1..Len(responses[i].answers) :
                                responses[i].answers[j].questionId
                                   = ScanForm.questions[k].id})]_vars

\* f1 has the questions q2, q4 and two responses, one answering q2 and q4 and
\* one answering q2 twice: the summary counts 2 for q2 and 1 for q4
C15_Witness ==
    /\ view.kind = "Summary"
    /\ forms["f1"].questions = SetOrder(<<Q2, Q4>>)
    /\ Len(SelectForm(responses, "f1")) = 2
    /\ Len(view.summary[1].questions) = 2
    /\ view.summary[1].questions[1].questionId = "q2"
    /\ view.summary[1].questions[1].totalAnswers = 2
    /\ view.summary[1].questions[2].questionId = "q4"
    /\ view.summary[1].questions[2].totalAnswers = 1

---------------------------------------------------------------------------
(* C16 *)

\* the entry of the summary sent for the k-th question
Entry(k) == Out.questions[k]

\* the number of answers to question qid with value v in the responses found
Occurrences(qid, v) ==
    Cardinality({ij \in (1..Len(ScanFound)) \X (1..MaxAnswers + 1) :
        /\ ij[2] <= Len(ScanFound[ij[1]].answers)
        /\ ScanFound[ij[1]].answers[ij[2]].questionId = qid
        /\ ScanFound[ij[1]].answers[ij[2]].answer = v})

\* the number of responses found whose first answer to question qid is v
FirstOccurrences(qid, v) ==
    Cardinality({i \in 1..Len(ScanFound) :
        LET k == FindStored(ScanFound[i].answers, qid)
        IN  k # 0 /\ ScanFound[i].answers[k].answer = v})

---------------------------------------------------------------------------
(* C17 *)

\* the same totalResponses and, question by question, the same totalAnswers
\* and the same tally as a mapping from values to counts
SameCounts(a, b) ==
    /\ a.totalResponses = b.totalResponses
    /\ Len(a.questions) = Len(b.questions)
    /\ \A k \in 1..Len(a.questions) :
          /\ a.questions[k].questionId = b.questions[k].questionId
          /\ a.questions[k].totalAnswers = b.questions[k].totalAnswers
          /\ IsMapping(a.questions[k].answers)
          /\ IsMapping(b.questions[k].answers)
          /\ \A v \in Vals :
                TallyOf(a.questions[k].answers, v) = TallyOf(b.questions[k].answers, v)

\* C17: the summary sent is the one a second computation on the same form
\* and responses gives, and the computation on the same responses in any
\* other order gives the same totalResponses and, for every question, the
\* same totalAnswers and the same tally (as a mapping; the order of its keys
\* follows the order of the responses).
C17_OrderIndependent ==
    [][Scanning
       => /\ Out = Summarize(ScanForm, adm[1].total, ScanFound)
          /\ \A p \in Permutations(1..Len(ScanFound)) :
                SameCounts(Out,
                           Summarize(ScanForm, adm[1].total,
                                     [i \in 1..Len(ScanFound) |-> ScanFound[p[i]]]))]_vars

\* the first response found chose B and the second A: the tally lists B
\* before A, and the responses in the other order give A before B
C17_Witness ==
    /\ view.kind = "Summary"
    /\ Len(SelectForm(responses, "f1")) = 2
    /\ view.summary[1].questions[1].answers
          = <<[value |-> "B", count |-> 1], [value |-> "A", count |-> 1]>>

---------------------------------------------------------------------------
(* C18 *)

\* C18: when the form has no stored response, the handler still sends a
\* summary: totalResponses is 0, there is one entry per question, and every
\* entry has totalAnswers 0 and an empty tally.
C18_EmptySummary ==
    [][(Scanning /\ ScanFound = <<>>)
       => /\ view'.kind = "Summary"
          /\ view'.status = 200
          /\ Out.totalResponses = 0
          /\ Len(Out.questions) = Len(ScanForm.questions)
          /\ \A k \in 1..Len(ScanForm.questions) :
                /\ Out.questions[k].questionId = ScanForm.questions[k].id
                /\ Out.questions[k].totalAnswers = 0
                /\ Out.questions[k].answers = <<>>]_vars

\* the summary of f1, which has no response while f2 has one
C18_Witness ==
    /\ view.kind = "Summary"
    /\ SelectForm(responses, "f1") = <<>>
    /\ SelectForm(responses, "f2") # <<>>
    /\ view.summary[1].totalResponses = 0
    /\ Len(view.summary[1].questions) = 2
    /\ view.summary[1].questions[1].questionId = "q2"

---------------------------------------------------------------------------
(* C19 *)

\* u is the creator of the stored form f
IsCreator(u, f) == f \in DOMAIN forms /\ forms[f].creator = u

\* the step answers with an error, sends no form, response or summary,
\* starts no summary and changes no stored form or response
Denied ==
    /\ view'.status >= 400
    /\ view'.forms = <<>>
    /\ view'.responses = <<>>
    /\ view'.summary = <<>>
    /\ adm' = adm
    /\ forms' = forms
    /\ responses' = responses

\* C19: a read, update, delete, response list, summary or export request for
\* a form by a user who is not its creator, and a request for one response
\* by a user who is not the creator of the response's form, is denied: the
\* reply is an error without data and nothing stored changes; a data-bearing
\* reply to such a request is never sent; and the form list of a user holds
\* the forms that user created and no other.
C19_CreatorOnly ==
    [][\A u \in Users :
          /\ \A f \in FormIds :
                ~IsCreator(u, f)
                => ((\/ GetForm(u, f)
                     \/ EditFormBy(u, f)
                     \/ DeleteForm(u, f)
                     \/ ListResponses(u, f)
                     \/ SummaryFindForm(u, f)
                     \/ ExportResponses(u, f)) => Denied)
          /\ \A i \in 1..Len(responses) :
                ~IsCreator(u, responses[i].form) => (GetResponse(u, i) => Denied)
          /\ ListForms(u)
                => /\ DOMAIN view'.forms = {g \in DOMAIN forms : forms[g].creator = u}
                   /\ \A g \in DOMAIN view'.forms : view'.forms[g] = forms[g]
                   /\ forms' = forms
                   /\ responses' = responses]_vars

\* u1 has asked for the response of f2, the form of u2, and got "access
\* denied" without data, while f1 and f2 and the response are stored
C19_Witness ==
    /\ view.kind = "AccessDenied"
    /\ view.status = 403
    /\ view.responses = <<>>
    /\ DOMAIN forms = {"f1", "f2"}
    /\ responses[1].form = "f2"
    /\ forms["f2"].creator = "u2"

---------------------------------------------------------------------------
(* C20 *)

\* C20: a response stored for a form whose settings.requireEmail was true
\* when the handler read the form has a submitterEmail.
C20_RequireEmailEnforced ==
    [][Len(responses') > Len(responses)
       => LET i == Len(responses')
          IN  hist'[i].form.settings.requireEmail
              => responses'[i].submitterEmail # NoEmail]_vars

---------------------------------------------------------------------------
(* C21 *)

\* the entries of an options list are pairwise distinct
Distinct(options) ==
    \A a, b \in 1..Len(options) : a # b => options[a] # options[b]

\* C21: in every stored form a question is multiple-choice exactly when it
\* has 2 or more options, and the options of a question are pairwise distinct.
C21_OptionsWellFormed ==
    \A f \in DOMAIN forms :
        \A i \in 1..Len(forms[f].questions) :
            LET q == forms[f].questions[i]
            IN  /\ (q.type = "multiple-choice") <=> (Len(q.options) >= 2)
                /\ Distinct(q.options)

---------------------------------------------------------------------------
(* C22 *)

\* every stored form has 1 to 10 questions
OneToTen == \A f \in DOMAIN forms : Len(forms[f].questions) \in 1..10

\* C22: every stored form has between 1 and 10 questions, and a create or
\* update whose question list is empty or longer than 10 is answered with a
\* 400 and leaves the stored forms as they were.
C22_OneToTenQuestions ==
    /\ []OneToTen
    /\ [][\A u \in Users, questions \in BodyLists :
             Len(questions) \notin 1..10
             => ((\/ CreateForm(u, "T1", questions, <<>>)
                  \/ \E f \in MadeForms :
                         UpdateForm(u, f, <<>>, <<>>, <<>>, <<questions>>))
                 => /\ view'.status = 400
                    /\ view'.forms = <<>>
                    /\ forms' = forms)]_vars

\* a list too short or too long has just been refused while a form with ten
\* questions is stored
C22_Witness ==
    /\ view.kind = "ValidationError"
    /\ \E f \in DOMAIN forms : Len(forms[f].questions) = 10

---------------------------------------------------------------------------
(* C23 *)

\* C23: in every stored form the question at position i has order = i, so
\* the order values are positive and pairwise distinct.
C23_OrderIsPosition ==
    \A f \in DOMAIN forms :
        \A i \in 1..Len(forms[f].questions) : forms[f].questions[i].order = i

\* a form is stored whose two questions were both sent with order 5
C23_Witness ==
    \E f \in DOMAIN forms :
        /\ forms[f].questions = SetOrder(<<Q1opt, Q2dup>>)
        /\ forms[f].questions[1].order = 1
        /\ forms[f].questions[2].order = 2
        /\ Q1opt.order = 5
        /\ Q2dup.order = 5

---------------------------------------------------------------------------
(* C24 *)

\* the stored forms that are active and have this publicUrl
ActiveAt(url) == {g \in DOMAIN forms : forms[g].publicUrl = url /\ forms[g].isActive}

\* C24: a lookup by publicUrl answers with the form when an active stored
\* form has that publicUrl, and with 404 and no form when the form is
\* inactive or deleted or the publicUrl is unknown; a form that is set
\* active again keeps its publicUrl, so the same link finds it again.
C24_PublicOnlyWhileActive ==
    [][/\ \A url \in PublicUrls :
             GetPublicForm(url)
             => IF ActiveAt(url) = {}
                THEN /\ view'.status = 404
                     /\ view'.forms = <<>>
                ELSE /\ view'.status = 200
                     /\ view'.forms = [g \in ActiveAt(url) |-> forms[g]]
                     /\ Cardinality(ActiveAt(url)) = 1
       /\ \A f \in DOMAIN forms :
             (f \in DOMAIN forms' /\ ~forms[f].isActive /\ forms'[f].isActive)
             => forms'[f].publicUrl = forms[f].publicUrl]_vars

\* the link of f1 has answered with f1, which carries the title it was given
\* by the edit that closed it: f1 was closed, opened again, and found
C24_Witness ==
    /\ view.kind = "PublicForm"
    /\ DOMAIN view.forms = {"f1"}
    /\ view.forms["f1"].title = "T2"
    /\ view.forms["f1"].isActive
    /\ view.forms["f1"].publicUrl = "form-1"

---------------------------------------------------------------------------
(* C25 *)

\* C25: the summary a scan sends has totalResponses equal to the number of
\* responses the scan read, and no question has more totalAnswers than
\* totalResponses.
C25_TotalIsScanned ==
    [][SummaryScan
       => LET sent == view'.summary[1]
          IN  /\ sent.totalResponses = Len(SelectForm(responses, adm[1].formId))
              /\ \A k \in 1..Len(sent.questions) :
                     sent.questions[k].totalAnswers <= sent.totalResponses]_vars

---------------------------------------------------------------------------
(* C26 *)

\* C26: when a response is stored, its form is stored and active in that
\* moment.
C26_SavedOnlyForActiveForm ==
    [][Len(responses') > Len(responses)
       => LET f == responses'[Len(responses')].form
          IN  /\ f \in DOMAIN forms
              /\ forms[f].isActive]_vars

---------------------------------------------------------------------------
(* C27 *)

\* no two answers of the list carry the same questionId
OnePerQuestion(answers) ==
    \A a, b \in 1..Len(answers) :
        a # b => answers[a].questionId # answers[b].questionId

\* C27: a response that is stored has at most one answer per questionId.
C27_OneAnswerPerQuestion ==
    [][Len(responses') > Len(responses)
       => OnePerQuestion(responses'[Len(responses')].answers)]_vars

---------------------------------------------------------------------------
(* C28 *)

\* the ids of the questions of a form
QuestionIds(form) == {form.questions[k].id : k \in 1..Len(form.questions)}

\* some answer of the request in flight names no question of its form
NamesUnknown(c) ==
    \E i \in 1..Len(c.answers) : c.answers[i].questionId \notin QuestionIds(c.form)

\* C28: every answer of a stored response carries the id of a question of
\* the form the submission was checked against; and a submission that comes
\* to its save with an answer whose questionId matches no question of the
\* form is answered with an error and stores nothing.
C28_UnknownQuestionNeverStored ==
    /\ [](\A i \in 1..Len(responses) :
            \A k \in 1..Len(responses[i].answers) :
                responses[i].answers[k].questionId \in QuestionIds(hist[i].form))
    /\ [][\A r \in Reqs :
             (Save(r) /\ NamesUnknown(req[r]))
             => /\ res'[r].status >= 400
                /\ responses' = responses]_vars

\* the submission to f1 had as many answers as f1 has questions, one of them
\* for q3, which f1 does not have, passed the checks and ended in a 500
C28_Witness ==
    /\ input # <<>>
    /\ input[1].formId = "f1"
    /\ "f1" \in DOMAIN forms
    /\ Len(input[1].answers) = Len(forms["f1"].questions)
    /\ \E i \in 1..Len(input[1].answers) : input[1].answers[i].questionId = "q3"
    /\ res["r1"].status = 500
    /\ res["r1"].kind = "ServerError"

---------------------------------------------------------------------------
(* C29 *)

\* the stored form f after the step has the fields of body b where b has
\* them (settings key by key, questions with their positions as order) and
\* the stored values everywhere else
OnlyBodyFields(f, b) ==
    LET old == forms[f]
        new == forms'[f]
    IN  /\ new.creator = old.creator
        /\ new.publicUrl = old.publicUrl
        /\ new.title = (IF b.title # <<>> THEN b.title[1] ELSE old.title)
        /\ new.isActive = (IF b.isActive # <<>> THEN b.isActive[1] ELSE old.isActive)
        /\ DOMAIN new.settings = DOMAIN old.settings
        /\ \A k \in DOMAIN old.settings :
              new.settings[k] = (IF b.settings # <<>> /\ k \in DOMAIN b.settings[1]
                                 THEN b.settings[1][k] ELSE old.settings[k])
        /\ IF b.questions = <<>>
           THEN new.questions = old.questions
           ELSE /\ Len(new.questions) = Len(b.questions[1])
                /\ \A i \in 1..Len(new.questions) :
                      new.questions[i] = [b.questions[1][i] EXCEPT !.order = i]

\* C29: an update that is answered with an error leaves every stored form
\* as it was, whatever else its body carried; an update that is accepted
\* changes the one form, and of it only the fields the body has: settings
\* are merged key by key, creator and publicUrl stay.
C29_UpdateFrame ==
    [][\A u \in Users, f \in MadeForms, b \in PutBodies :
          UpdateForm(u, f, b.title, b.isActive, b.settings, b.questions)
          => IF view'.status >= 400
             THEN forms' = forms
             ELSE /\ view'.status = 200
                  /\ f \in DOMAIN forms
                  /\ DOMAIN forms' = DOMAIN forms
                  /\ \A g \in DOMAIN forms \ {f} : forms'[g] = forms[g]
                  /\ OnlyBodyFields(f, b)]_vars

\* an update has just been refused for a one-option choice question (no
\* create can have been the last step: all forms are made); its body also
\* carried title T2, isActive false and a setting, and every stored form
\* still has its title T1, is active and has the setting as created
C29_Witness ==
    /\ view.kind = "TooFewOptions"
    /\ made = MaxForms
    /\ DOMAIN forms # {}
    /\ \A f \in DOMAIN forms :
          /\ forms[f].title = "T1"
          /\ forms[f].isActive
          /\ ~forms[f].settings.allowMultipleResponses

---------------------------------------------------------------------------
(* C30 *)

RECURSIVE SumOfCounts(_)
\* the counts of a tally added up
SumOfCounts(tally) ==
    IF tally = <<>> THEN 0 ELSE tally[1].count + SumOfCounts(Tail(tally))

\* C30: in the summary sent, for every choice question the counts of the
\* tally add up to the question's totalAnswers, and every count is 1 or more.
C30_TallyAddsUp ==
    [][Scanning
       => \A k \in 1..Len(ScanForm.questions) :
             ScanForm.questions[k].type = "multiple-choice"
             => /\ SumOfCounts(Entry(k).answers) = Entry(k).totalAnswers
                /\ \A i \in 1..Len(Entry(k).answers) :
                      Entry(k).answers[i].count >= 1]_vars

=============================================================================
